---- MODULE Spec2Model ----
(***************************************************************************)
(* The OAuth2 token lifecycle of kroger_api: one KrogerClient session      *)
(* (token_info, token_file, redirect_uri), the credential slots on disk,   *)
(* and the operations that acquire, test, refresh and use a token.         *)
(* chmod_supported says whether the platform lets os.chmod change a slot   *)
(* file's mode.                                                            *)
(*                                                                         *)
(* Six specifications: Spec, the operations of one session called one      *)
(* after the other; FlowSpec, authenticate_user next to the thread of its  *)
(* callback server, and LiveSpec, the same with fair scheduling and with   *)
(* clients that connect before they send; StoreSpec, the functions of      *)
(* token_storage on their own; RecordSpec, a session over slots written    *)
(* beforehand; PkceSpec, the functions of utils/pkce on their own.         *)
(*                                                                         *)
(* Every operation is sequential code, so an operation is one action.  The *)
(* endpoints it talks to are the environment: each request it sends is     *)
(* answered by a response drawn from the set of responses the endpoint can *)
(* give.  An operation's outcomes are computed as a set, one element per   *)
(* way the environment can answer the requests the code really sends.      *)
(* `call' records the finished call: what was asked, what was returned or  *)
(* raised, and the requests that went out.  The caller takes the result    *)
(* (Resume) before it issues the next call.                                *)
(***************************************************************************)
EXTENDS Integers, Sequences, FiniteSets, TLC

VARIABLES slots, token_info, token_file, redirect_uri, chmod_supported, call,
          pc, state, auth_code, auth_state, auth_event, server, thread, requests

vars == <<slots, token_info, token_file, redirect_uri, chmod_supported, call,
          pc, state, auth_code, auth_state, auth_event, server, thread, requests>>

\* authenticate_user: where its main flow stands (pc), the state it generated,
\* the three variables its callback writes, the callback server and the thread
\* serving it, and the redirect requests that reached the server
interactive == <<pc, state, auth_code, auth_state, auth_event, server, thread, requests>>

\* what no operation of the session changes: its configuration and platform
config == <<redirect_uri, chmod_supported>>

(***************************************************************************)
(* Bounds                                                                  *)
(***************************************************************************)
\* number of distinct token pairs the token endpoint hands out
MaxToken == 2
\* number of distinct JSON bodies a resource endpoint answers with
MaxBody == 2

(***************************************************************************)
(* Values                                                                  *)
(***************************************************************************)
\* Python None
None == [none |-> TRUE]

\* a key that is missing from a token dict
NoField == 0

TokenIds == 1..MaxToken

\* A Token Record: the dict the token endpoint returns.  Only the two keys
\* the code reads are kept; the other keys (token_type, expires_in) are
\* always there, so a record is never the empty dict.
Tok(a, r) == [at |-> a, rt |-> r]

Records == {Tok(a, r) : a \in {NoField} \cup TokenIds, r \in {NoField} \cup TokenIds}

\* an exception object; for an HTTPError, status and error are its response's
Exc(name, status, error) == [exc |-> name, status |-> status, error |-> error]

NoExc == Exc("", 0, "")

\* an HTTP response: status 0 stands for no response at all (the transport
\* raised); json says whether the body parses as a JSON object; error is the
\* body's "error" member; data identifies a success body
Resp(status, json, error, data) ==
    [status |-> status, json |-> json, error |-> error, data |-> data]

(***************************************************************************)
(* Credential Store (token_storage.py)                                     *)
(***************************************************************************)
Absent == [kind |-> "absent"]

\* a file whose text is not JSON
Corrupt == [kind |-> "corrupt"]

\* a file whose bytes are not text in the encoding open() reads with
Undecodable == [kind |-> "undecodable"]

\* a file that holds a JSON value other than an object: a number
NotObject == [kind |-> "number"]

\* what json.load returns for the text of NotObject
Number == [number |-> TRUE]

\* mutant of json_dump: the refresh_token member is not written
json_dump_NoRefreshToken(rec) ==
    <<<<"expires_in", 1800>>>>
    \o (IF rec.at # NoField THEN <<<<"access_token", rec.at>>>> ELSE <<>>)

\* json.dump of a token dict: the text of the file, member after member; a key
\* the dict does not have is not written
json_dump(rec) ==
    <<<<"expires_in", 1800>>>>
    \o (IF rec.at # NoField THEN <<<<"access_token", rec.at>>>> ELSE <<>>)
    \o (IF rec.rt # NoField THEN <<<<"refresh_token", rec.rt>>>> ELSE <<>>)

\* the value of member key in a JSON text, NoField when it has no such member
Member(text, key) ==
    IF \E i \in 1..Len(text) : text[i][1] = key
    THEN text[CHOOSE i \in 1..Len(text) : text[i][1] = key][2]
    ELSE NoField

\* json.load of the text of a file
json_load(text) == Tok(Member(text, "access_token"), Member(text, "refresh_token"))

\* a file that holds the JSON text of rec
Json(rec) == [kind |-> "json", text |-> json_dump(rec)]

\* the empty file name: `if self.token_file:' is false for it, as for None
NoFile == <<>>

UserFile == <<".kroger_token_user", ".json">>

\* scope.replace(':', '_'), a scope being a sequence of its parts
RECURSIVE Replace(_)
Replace(scope) ==
    IF scope = <<>> THEN <<>>
    ELSE <<IF Head(scope) = ":" THEN "_" ELSE Head(scope)>> \o Replace(Tail(scope))

ClientFile(scope) == <<".kroger_token_client_">> \o Replace(scope) \o <<".json">>

Scopes == { <<"product.compact">>,
            <<"cart.basic", ":", "write">>,
            <<"cart.basic", "_", "write">> }

\* a slot a caller names himself
CustomFile == <<".kroger_token_work", ".json">>

Files == {UserFile, CustomFile} \cup {ClientFile(s) : s \in Scopes}

\* os.chmod(token_file, 0o600): raises where the platform refuses the change
Chmod == IF chmod_supported THEN NoExc ELSE Exc("PermissionError", 0, "")

\* save_token: write the file, then chmod it; when the chmod raises, save_token
\* raises with the file already written
save_token(sl, rec, file) ==
    { [slots |-> [sl EXCEPT ![file] = Json(rec)], exc |-> Chmod] }

\* the exception load_token raises, NoExc when it returns: its except clause
\* names JSONDecodeError and IOError, and the UnicodeDecodeError that reading
\* undecodable bytes raises is neither.  No operation of the program writes
\* such a file
load_token_raises(sl, file) ==
    IF sl[file] = Undecodable THEN Exc("UnicodeDecodeError", 0, "") ELSE NoExc

\* what load_token returns, when it returns
load_token(sl, file) ==
    IF sl[file] = Absent THEN None
    ELSE IF sl[file] = Corrupt THEN None
    ELSE IF sl[file] = Undecodable THEN None
    ELSE IF sl[file] = NotObject THEN Number
    ELSE json_load(sl[file].text)

\* the exception get_refresh_token raises: load_token's, or the TypeError of
\* `"refresh_token" in token_info' when token_info is a number
get_refresh_token_raises(sl, file) ==
    IF load_token_raises(sl, file) # NoExc THEN load_token_raises(sl, file)
    ELSE IF load_token(sl, file) = Number THEN Exc("TypeError", 0, "")
    ELSE NoExc

\* what get_refresh_token returns, when it returns
get_refresh_token(sl, file) ==
    LET t == load_token(sl, file)
    IN  IF t # None /\ t # Number /\ t.rt # NoField THEN t.rt ELSE NoField

(***************************************************************************)
(* The endpoints (the environment)                                         *)
(***************************************************************************)
\* records the token endpoint issues: a client_credentials record carries no
\* refresh token, an authorization_code or refresh_token record carries one
IssuedRecords(grant) ==
    IF grant = "client_credentials"
    THEN {Tok(n, NoField) : n \in TokenIds}
    ELSE {Tok(n, n) : n \in TokenIds}

TokenResp(status, json, rec) == [status |-> status, json |-> json, rec |-> rec]

TokenResponses(grant) ==
    {TokenResp(200, TRUE, r) : r \in IssuedRecords(grant)}
    \cup {TokenResp(200, FALSE, None), TokenResp(400, TRUE, None),
          TokenResp(500, FALSE, None), TokenResp(0, FALSE, None)}

ProbeResponses ==
    {Resp(200, TRUE, "", 1), Resp(401, TRUE, "invalid_token", 0), Resp(0, FALSE, "", 0)}

ResourceResponses ==
    {Resp(200, TRUE, "", d) : d \in 1..MaxBody}
    \cup {Resp(200, FALSE, "", 0), Resp(204, FALSE, "", 0),
          Resp(401, TRUE, "invalid_token", 0), Resp(401, TRUE, "other", 0),
          Resp(401, FALSE, "", 0), Resp(403, TRUE, "other", 0),
          Resp(500, FALSE, "", 0), Resp(0, FALSE, "", 0)}

\* a token request as it goes out, with the answer it got
TokenRequest(grant, scope, code, rt) ==
    [grant |-> grant, scope |-> scope, code |-> code, rt |-> rt]

(***************************************************************************)
(* KrogerClient (client.py)                                                *)
(***************************************************************************)
\* _get_auth_header raises ValueError unless this holds
HasAccessToken(ti) == ti # None /\ ti.at # NoField

\* mutant of _get_token: the response body is kept as token_info before
\* raise_for_status looks at the status
_get_token_KeepsErrorBody(ti, request) ==
    { LET sent == <<[req |-> request, resp |-> resp]>>
      IN  IF resp.status = 0
          THEN [token_info |-> ti, rec |-> None, exc |-> Exc("ConnectionError", 0, ""), tok |-> sent]
          ELSE IF resp.status >= 400
          THEN [token_info |-> IF resp.json THEN Tok(NoField, NoField) ELSE ti, rec |-> None,
                exc |-> Exc("HTTPError", resp.status, ""), tok |-> sent]
          ELSE IF ~resp.json
          THEN [token_info |-> ti, rec |-> None, exc |-> Exc("JSONDecodeError", 0, ""), tok |-> sent]
          ELSE [token_info |-> resp.rec, rec |-> resp.rec, exc |-> NoExc, tok |-> sent]
      : resp \in TokenResponses(request.grant) }

\* _get_token: post the grant, raise_for_status, keep the JSON as token_info
_get_token(ti, request) ==
    { LET sent == <<[req |-> request, resp |-> resp]>>
      IN  IF resp.status = 0
          THEN [token_info |-> ti, rec |-> None, exc |-> Exc("ConnectionError", 0, ""), tok |-> sent]
          ELSE IF resp.status >= 400
          THEN [token_info |-> ti, rec |-> None, exc |-> Exc("HTTPError", resp.status, ""), tok |-> sent]
          ELSE IF ~resp.json
          THEN [token_info |-> ti, rec |-> None, exc |-> Exc("JSONDecodeError", 0, ""), tok |-> sent]
          ELSE [token_info |-> resp.rec, rec |-> resp.rec, exc |-> NoExc, tok |-> sent]
      : resp \in TokenResponses(request.grant) }

\* the slot refresh_token saves to
RefreshTargetFile(tf) == IF tf # NoFile THEN tf ELSE UserFile

\* refresh_token: _get_token, then save; every failure propagates
refresh_token(sl, ti, tf, rt) ==
    UNION { IF g.exc # NoExc
            THEN {[slots |-> sl, token_info |-> g.token_info, rec |-> None, exc |-> g.exc, tok |-> g.tok]}
            ELSE {[slots |-> s.slots, token_info |-> g.token_info,
                   rec |-> IF s.exc = NoExc THEN g.rec ELSE None,
                   exc |-> s.exc, tok |-> g.tok]
                  : s \in save_token(sl, g.rec, RefreshTargetFile(tf))}
          : g \in _get_token(ti, TokenRequest("refresh_token", <<>>, 0, rt)) }

\* mutant of TestTokenRefresh: a refresh that failed is sent once more
TestTokenRefresh_Retried(sl, ti, tf, rec, res) ==
    UNION { IF r.exc = NoExc
            THEN {[slots |-> r.slots, token_info |-> r.token_info, flag |-> TRUE, tok |-> r.tok, res |-> res]}
            ELSE {[slots |-> r2.slots, token_info |-> r2.token_info, flag |-> r2.exc = NoExc,
                   tok |-> r.tok \o r2.tok, res |-> res]
                  : r2 \in refresh_token(r.slots, r.token_info, tf, rec.rt)}
          : r \in refresh_token(sl, ti, tf, rec.rt) }

\* test_token, the two `try: refresh ... except: return False' blocks
TestTokenRefresh(sl, ti, tf, rec, res) ==
    { [slots |-> r.slots, token_info |-> r.token_info, flag |-> r.exc = NoExc, tok |-> r.tok, res |-> res]
      : r \in refresh_token(sl, ti, tf, rec.rt) }

\* mutant of ProbeOk: any response at all counts as a valid token
ProbeOk_AnyResponse(p) == p.status # 0

\* the probe's verdict: `response.status_code == 200'
ProbeOk(p) == p.status = 200

\* what test_token leaves in token_info after the probe got a response
ProbeRestore(original, rec) == original

\* test_token
test_token(sl, ti, tf, rec) ==
    LET sent(p) == <<[bearer |-> rec.at, resp |-> p]>>
    IN  IF rec.rt # NoField
        THEN IF ~HasAccessToken(rec)
             THEN TestTokenRefresh(sl, rec, tf, rec, <<>>)
             ELSE UNION { IF p.status = 0
                          THEN TestTokenRefresh(sl, rec, tf, rec, sent(p))
                          ELSE IF ProbeOk(p)
                          THEN {[slots |-> sl, token_info |-> ProbeRestore(ti, rec), flag |-> TRUE,
                                 tok |-> <<>>, res |-> sent(p)]}
                          ELSE TestTokenRefresh(sl, ProbeRestore(ti, rec), tf, rec, sent(p))
                        : p \in ProbeResponses }
        ELSE IF ~HasAccessToken(rec)
             THEN {[slots |-> sl, token_info |-> rec, flag |-> FALSE, tok |-> <<>>, res |-> <<>>]}
             ELSE { IF p.status = 0
                    THEN [slots |-> sl, token_info |-> rec, flag |-> FALSE, tok |-> <<>>, res |-> sent(p)]
                    ELSE [slots |-> sl, token_info |-> ProbeRestore(ti, rec), flag |-> ProbeOk(p),
                          tok |-> <<>>, res |-> sent(p)]
                  : p \in ProbeResponses }

\* mutant of TokenIsValid: the verdict is read the wrong way round
TokenIsValid_Negated(t) == ~t.flag

\* mutant of TokenIsValid: the verdict is ignored, no token counts as valid
TokenIsValid_Never(t) == FALSE

\* the validity verdict get_token_with_client_credentials and
\* refresh_token_if_needed act on
TokenIsValid(t) == t.flag

\* get_token_with_client_credentials; the outcomes of the whole call
get_token_with_client_credentials(sl, ti, scope) ==
    LET tf == ClientFile(scope)
        loaded == load_token(sl, tf)
        exchange(sl2, ti2, tok, res) ==
            UNION { IF g.exc # NoExc
                    THEN {[slots |-> sl2, token_info |-> g.token_info, rec |-> None, exc |-> g.exc,
                           tok |-> tok \o g.tok, res |-> res]}
                    ELSE {[slots |-> s.slots, token_info |-> g.token_info,
                           rec |-> IF s.exc = NoExc THEN g.rec ELSE None,
                           exc |-> s.exc, tok |-> tok \o g.tok, res |-> res]
                          : s \in save_token(sl2, g.rec, tf)}
                  : g \in _get_token(ti2, TokenRequest("client_credentials", scope, 0, NoField)) }
    IN  IF loaded # None
        THEN UNION { IF TokenIsValid(t)
                     THEN {[slots |-> t.slots, token_info |-> loaded, rec |-> loaded, exc |-> NoExc,
                            tok |-> t.tok, res |-> t.res]}
                     ELSE exchange(t.slots, t.token_info, t.tok, t.res)
                   : t \in test_token(sl, ti, tf, loaded) }
        ELSE exchange(sl, ti, <<>>, <<>>)

\* get_token_with_authorization_code, once the redirect URI is known to be set
get_token_with_authorization_code(sl, ti, code) ==
    UNION { IF g.exc # NoExc
            THEN {[slots |-> sl, token_info |-> g.token_info, rec |-> None, exc |-> g.exc, tok |-> g.tok]}
            ELSE {[slots |-> s.slots, token_info |-> g.token_info,
                   rec |-> IF s.exc = NoExc THEN g.rec ELSE None,
                   exc |-> s.exc, tok |-> g.tok]
                  : s \in save_token(sl, g.rec, UserFile)}
          : g \in _get_token(ti, TokenRequest("authorization_code", <<>>, code, NoField)) }

\* the slot refresh_token_if_needed reads
IfNeededFile(arg, tf) == IF arg # NoFile THEN arg ELSE IF tf # NoFile THEN tf ELSE UserFile

\* AuthorizationAPI.refresh_token_if_needed
refresh_token_if_needed(sl, ti, tf, arg) ==
    LET file == IfNeededFile(arg, tf)
        loaded == load_token(sl, file)
        none(sl2, ti2, tok, res) ==
            [slots |-> sl2, token_info |-> ti2, rec |-> None, flag |-> FALSE, tok |-> tok, res |-> res]
    IN  IF loaded # None
        THEN UNION { IF TokenIsValid(t)
                     THEN {[slots |-> t.slots, token_info |-> t.token_info, rec |-> loaded, flag |-> TRUE,
                            tok |-> t.tok, res |-> t.res]}
                     ELSE IF get_refresh_token(t.slots, file) # NoField
                     THEN { IF r.exc = NoExc
                            THEN [slots |-> r.slots, token_info |-> r.token_info, rec |-> r.rec, flag |-> FALSE,
                                  tok |-> t.tok \o r.tok, res |-> t.res]
                            ELSE none(r.slots, r.token_info, t.tok \o r.tok, t.res)
                          : r \in refresh_token(t.slots, t.token_info, tf, get_refresh_token(t.slots, file)) }
                     ELSE {none(t.slots, t.token_info, t.tok, t.res)}
                   : t \in test_token(sl, ti, tf, loaded) }
        ELSE {none(sl, ti, <<>>, <<>>)}

\* the body of an error response that is not a JSON object
BadBody == "<not json>"

\* one send of the call in _make_request: request, raise_for_status, 204, json()
Attempt(resp) ==
    IF resp.status = 0 THEN [data |-> 0, exc |-> Exc("ConnectionError", 0, "")]
    ELSE IF resp.status >= 400
    THEN [data |-> 0,
          exc |-> Exc("HTTPError", resp.status, IF resp.json THEN resp.error ELSE BadBody)]
    ELSE IF resp.status = 204 THEN [data |-> 0, exc |-> NoExc]
    ELSE IF ~resp.json THEN [data |-> 0, exc |-> Exc("JSONDecodeError", 0, "")]
    ELSE [data |-> resp.data, exc |-> NoExc]

\* mutant of RetryBearer: the retry reuses the headers of the first send
RetryBearer_Rejected(old, new) == old.at

\* the bearer token of the retried call
RetryBearer(old, new) == new.at

\* mutant of AfterRefreshError: the final `raise' is missing, the call
\* returns None
AfterRefreshError_Swallowed(original, e) == NoExc

\* what _make_request raises when the refresh or the retried call raised e:
\* the bare `raise' after the inner except re-raises the first call's error
AfterRefreshError(original, e) == original

\* mutant of AvailableRefreshToken: the user slot is read, whatever the active
\* slot
AvailableRefreshToken_UserSlot(sl, tf) == get_refresh_token(sl, UserFile)

\* the refresh token _make_request refreshes with; NoField when there is none
AvailableRefreshToken(sl, tf) == IF tf # NoFile THEN get_refresh_token(sl, tf) ELSE NoField

\* _make_request
_make_request(sl, ti, tf) ==
    LET out(sl2, ti2, a, tok, res) ==
            [slots |-> sl2, token_info |-> ti2, data |-> a.data, exc |-> a.exc, tok |-> tok, res |-> res]
        raise(e) == [data |-> 0, exc |-> e]
        retry(r, a1, res1) ==
            IF r.exc # NoExc
            THEN {out(r.slots, r.token_info, raise(AfterRefreshError(a1.exc, r.exc)), r.tok, res1)}
            ELSE IF ~HasAccessToken(r.rec)
            THEN {out(r.slots, r.rec, raise(AfterRefreshError(a1.exc, Exc("ValueError", 0, ""))),
                      r.tok, res1)}
            ELSE { LET a2 == Attempt(r2)
                       res2 == res1 \o <<[bearer |-> RetryBearer(ti, r.rec), resp |-> r2]>>
                   IN  IF a2.exc = NoExc
                       THEN out(r.slots, r.rec, a2, r.tok, res2)
                       ELSE out(r.slots, r.rec, raise(AfterRefreshError(a1.exc, a2.exc)), r.tok, res2)
                 : r2 \in ResourceResponses }
        first(r1) ==
            LET a1 == Attempt(r1)
                res1 == <<[bearer |-> ti.at, resp |-> r1]>>
            IN  IF a1.exc.exc = "HTTPError" /\ a1.exc.status = 401
                THEN IF a1.exc.error = BadBody
                     THEN {out(sl, ti, raise(Exc("JSONDecodeError", 0, "")), <<>>, res1)}
                     ELSE IF a1.exc.error = "invalid_token" /\ AvailableRefreshToken(sl, tf) # NoField
                     THEN UNION { retry(r, a1, res1)
                                  : r \in refresh_token(sl, ti, tf, AvailableRefreshToken(sl, tf)) }
                     ELSE {out(sl, ti, a1, <<>>, res1)}
                ELSE {out(sl, ti, a1, <<>>, res1)}
    IN  IF ~HasAccessToken(ti)
        THEN {out(sl, ti, raise(Exc("ValueError", 0, "")), <<>>, <<>>)}
        ELSE UNION { first(r1) : r1 \in ResourceResponses }

(***************************************************************************)
(* The session as a state machine                                          *)
(***************************************************************************)
\* the record of a finished call: its arguments (scope, arg, rec, code), the
\* slot it addressed and what that slot held when the call began, its result
\* (ret, flag or data, or the exception raised; for refresh_token_if_needed
\* flag is test_token's verdict on the loaded record), and the requests it sent to
\* the token endpoint (tok) and to the resource endpoints (res), in order
Call(op, scope, arg, rec, code, file, ret, flag, data, exc, tok, res) ==
    [op |-> op, scope |-> scope, arg |-> arg, rec |-> rec, code |-> code,
     file |-> file, before |-> IF file = NoFile THEN Absent ELSE slots[file],
     ret |-> ret, flag |-> flag, data |-> data, exc |-> exc, tok |-> tok, res |-> res]

Idle == [op |-> "idle"]

Codes == {1}

\* a redirect URI is its characters: http://localhost:8000/callback, and
\* http://localhost/callback, which names no port
WithPort ==
    << "h", "t", "t", "p", ":", "/", "/", "l", "o", "c", "a", "l", "h", "o", "s", "t",
       ":", "8", "0", "0", "0", "/", "c", "a", "l", "l", "b", "a", "c", "k" >>

WithoutPort ==
    << "h", "t", "t", "p", ":", "/", "/", "l", "o", "c", "a", "l", "h", "o", "s", "t",
       "/", "c", "a", "l", "l", "b", "a", "c", "k" >>

\* KROGER_REDIRECT_URI: unset, or set
RedirectUris == {None, [uri |-> WithPort], [uri |-> WithoutPort]}

\* auth_code = None, and a redirect request without a code parameter
NoCode == 0

\* a state string; the one generate_random_state returned, and any other one
Nonce(s) == [nonce |-> s]

SentState == Nonce("sent")

ForgedState == Nonce("forged")

\* the HTTPServer: its listening socket (none yet, bound, closed) and the two
\* flags serve_forever and shutdown synchronise on
Server(socket, shutdown_request, is_shut_down) ==
    [socket |-> socket, shutdown_request |-> shutdown_request, is_shut_down |-> is_shut_down]

NoServer == Server("none", FALSE, FALSE)

Init ==
    /\ slots = [f \in Files |-> Absent]
    /\ token_info = None
    /\ token_file = NoFile
    /\ redirect_uri \in RedirectUris
    /\ chmod_supported \in BOOLEAN
    /\ call = Idle
    /\ pc = "idle"
    /\ state = None
    /\ auth_code = NoCode
    /\ auth_state = None
    /\ auth_event = FALSE
    /\ server = NoServer
    /\ thread = "none"
    /\ requests = <<>>

GetTokenWithClientCredentials ==
    /\ call = Idle
    /\ \E scope \in Scopes : \E o \in get_token_with_client_credentials(slots, token_info, scope) :
          /\ slots' = o.slots
          /\ token_info' = o.token_info
          /\ token_file' = ClientFile(scope)
          /\ call' = Call("get_token_with_client_credentials", scope, NoFile, None, 0, ClientFile(scope),
                          o.rec, FALSE, 0, o.exc, o.tok, o.res)
    /\ UNCHANGED <<config, interactive>>

GetTokenWithAuthorizationCode_Unchecked ==
    /\ call = Idle
    /\ \E code \in Codes :
       \E o \in get_token_with_authorization_code(slots, token_info, code) :
          /\ slots' = o.slots
          /\ token_info' = o.token_info
          /\ token_file' = UserFile
          /\ call' = Call("get_token_with_authorization_code", <<>>, NoFile, None, code, UserFile,
                          o.rec, FALSE, 0, o.exc, o.tok, <<>>)
    /\ UNCHANGED <<config, interactive>>

GetTokenWithAuthorizationCode ==
    /\ call = Idle
    /\ \E code \in Codes :
          IF redirect_uri = None
          THEN /\ call' = Call("get_token_with_authorization_code", <<>>, NoFile, None, code, UserFile,
                               None, FALSE, 0, Exc("ValueError", 0, ""), <<>>, <<>>)
               /\ UNCHANGED <<slots, token_info, token_file>>
          ELSE \E o \in get_token_with_authorization_code(slots, token_info, code) :
                 /\ slots' = o.slots
                 /\ token_info' = o.token_info
                 /\ token_file' = UserFile
                 /\ call' = Call("get_token_with_authorization_code", <<>>, NoFile, None, code, UserFile,
                                 o.rec, FALSE, 0, o.exc, o.tok, <<>>)
    /\ UNCHANGED <<config, interactive>>

\* the refresh tokens the program holds, in a slot or in the session
HeldRefreshTokens ==
    {load_token(slots, f).rt : f \in {g \in Files : slots[g].kind = "json"}}
    \cup (IF token_info # None THEN {token_info.rt} ELSE {})

\* refresh_token, called with a refresh token the caller got from the program
CallRefreshToken ==
    /\ call = Idle
    /\ \E rt \in HeldRefreshTokens \ {NoField} : \E o \in refresh_token(slots, token_info, token_file, rt) :
          /\ slots' = o.slots
          /\ token_info' = o.token_info
          /\ call' = Call("refresh_token", <<>>, NoFile, Tok(NoField, rt), 0, RefreshTargetFile(token_file),
                          o.rec, FALSE, 0, o.exc, o.tok, <<>>)
    /\ UNCHANGED <<token_file, config, interactive>>

\* test_token, called with a record whose refresh token, if it has one, is one
\* the caller got from the program
CallTestToken ==
    /\ call = Idle
    /\ \E rec \in {r \in Records : r.rt \in HeldRefreshTokens \cup {NoField}} : \E o \in test_token(slots, token_info, token_file, rec) :
          /\ slots' = o.slots
          /\ token_info' = o.token_info
          /\ call' = Call("test_token", <<>>, NoFile, rec, 0, RefreshTargetFile(token_file),
                          None, o.flag, 0, NoExc, o.tok, o.res)
    /\ UNCHANGED <<token_file, config, interactive>>

\* KrogerAPI.test_current_token
TestCurrentToken ==
    /\ call = Idle
    /\ IF token_info # None
       THEN \E o \in test_token(slots, token_info, token_file, token_info) :
              /\ slots' = o.slots
              /\ token_info' = o.token_info
              /\ call' = Call("test_current_token", <<>>, NoFile, token_info, 0, RefreshTargetFile(token_file),
                              None, o.flag, 0, NoExc, o.tok, o.res)
       ELSE /\ call' = Call("test_current_token", <<>>, NoFile, None, 0, RefreshTargetFile(token_file),
                            None, FALSE, 0, NoExc, <<>>, <<>>)
            /\ UNCHANGED <<slots, token_info>>
    /\ UNCHANGED <<token_file, config, interactive>>

CallRefreshTokenIfNeeded ==
    /\ call = Idle
    /\ \E arg \in Files \cup {NoFile} :
       \E o \in refresh_token_if_needed(slots, token_info, token_file, arg) :
          /\ slots' = o.slots
          /\ token_info' = o.token_info
          /\ call' = Call("refresh_token_if_needed", <<>>, arg, None, 0, IfNeededFile(arg, token_file),
                          o.rec, o.flag, 0, NoExc, o.tok, o.res)
    /\ UNCHANGED <<token_file, config, interactive>>

CallMakeRequest ==
    /\ call = Idle
    /\ \E o \in _make_request(slots, token_info, token_file) :
          /\ slots' = o.slots
          /\ token_info' = o.token_info
          /\ call' = Call("_make_request", <<>>, NoFile, None, 0, token_file,
                          None, FALSE, o.data, o.exc, o.tok, o.res)
    /\ UNCHANGED <<token_file, config, interactive>>

\* clear_token
ClearToken ==
    /\ call = Idle
    /\ \E file \in Files :
          /\ slots' = [slots EXCEPT ![file] = Absent]
          /\ call' = Call("clear_token", <<>>, file, None, 0, file,
                          None, FALSE, 0, NoExc, <<>>, <<>>)
    /\ UNCHANGED <<token_info, token_file, config, interactive>>

\* the caller has the finished call's result and goes on to its next call
Resume ==
    /\ call # Idle
    /\ call' = Idle
    /\ UNCHANGED <<slots, token_info, token_file, config, interactive>>

Next ==
    \/ GetTokenWithClientCredentials
    \/ GetTokenWithAuthorizationCode
    \/ CallRefreshToken
    \/ CallTestToken
    \/ TestCurrentToken
    \/ CallRefreshTokenIfNeeded
    \/ CallMakeRequest
    \/ ClearToken
    \/ Resume

Spec == Init /\ [][Next]_vars

(***************************************************************************)
(* authenticate_user (auth/interactive.py) and the callback server         *)
(* (utils/oauth.py)                                                        *)
(*                                                                         *)
(* The flow first works on the persisted token (lines 41-79), one action,  *)
(* and returns when that gives a valid token.  Otherwise it runs the       *)
(* browser authorization (lines 81-137) next to the thread that serves the *)
(* callback server, so that part is taken step by step.  call.tok and      *)
(* call.res hold the requests of the part that is running.                 *)
(***************************************************************************)
\* number of redirect requests that reach the callback server in one run
MaxRequests == 2

TokenFileArgs == {UserFile, CustomFile}

\* KrogerAPI.test_current_token
test_current_token(sl, ti, tf) ==
    IF ti # None
    THEN test_token(sl, ti, tf, ti)
    ELSE {[slots |-> sl, token_info |-> ti, flag |-> FALSE, tok |-> <<>>, res |-> <<>>]}

\* authenticate_user, lines 41-79: test the persisted token, then refresh with
\* the slot's refresh token and test again.  flag is the verdict of the first
\* test on the persisted record; valid says that the flow returns here; refresh
\* is the place in tok of an accepted refresh of line 69, or 0
authenticate_user(sl, file) ==
    LET loaded == load_token(sl, file)
        out(sl2, ti2, flag, valid, tok, res, refresh) ==
            [slots |-> sl2, token_info |-> ti2, flag |-> flag, valid |-> valid, tok |-> tok,
             res |-> res, refresh |-> refresh]
        refreshing(sl2, ti2, flag, tok, res) ==
            LET rt == get_refresh_token(sl2, file)
            IN  IF rt = NoField
                THEN {out(sl2, ti2, flag, FALSE, tok, res, 0)}
                ELSE UNION { IF r.exc # NoExc
                             THEN {out(r.slots, r.token_info, flag, FALSE, tok \o r.tok, res, 0)}
                             ELSE { out(t.slots, t.token_info, flag, TokenIsValid(t), tok \o r.tok \o t.tok,
                                        res \o t.res, Len(tok) + 1)
                                    : t \in test_current_token(r.slots, r.token_info, file) }
                           : r \in refresh_token(sl2, ti2, file, rt) }
    IN  IF loaded # None
        THEN UNION { IF TokenIsValid(t)
                     THEN {out(t.slots, t.token_info, t.flag, TRUE, t.tok, t.res, 0)}
                     ELSE refreshing(t.slots, t.token_info, t.flag, t.tok, t.res)
                   : t \in test_current_token(sl, loaded, file) }
        ELSE refreshing(sl, None, FALSE, <<>>, <<>>)

\* the record of a call of authenticate_user: its token_file argument and what
\* that slot held at the start, whether the callback server was started and
\* the browser was opened, and, once the call is over, the token of the session
\* it returned or the exception it raised
AuthCall(file, part, ret, flag, exc, tok, res, refresh, started, directed) ==
    [op |-> "authenticate_user", arg |-> file, file |-> file, before |-> slots[file],
     part |-> part, ret |-> ret, flag |-> flag, exc |-> exc, tok |-> tok, res |-> res,
     refresh |-> refresh, started |-> started, directed |-> directed]

\* lines 41-79
AuthenticateUser ==
    /\ pc = "idle"
    /\ call = Idle
    /\ \E file \in TokenFileArgs : \E o \in authenticate_user(slots, file) :
          /\ slots' = o.slots
          /\ token_info' = o.token_info
          /\ token_file' = file
          /\ pc' = IF o.valid THEN "done" ELSE "authorize"
          /\ call' = AuthCall(file, "saved", IF o.valid THEN o.token_info ELSE None, o.flag, NoExc,
                              o.tok, o.res, o.refresh, FALSE, FALSE)
    /\ UNCHANGED <<config, state, auth_code, auth_state, auth_event, server, thread, requests>>

\* the call raises e before any callback server exists
Raise(e) ==
    /\ pc' = "done"
    /\ call' = [call EXCEPT !.exc = e]
    /\ UNCHANGED <<state, auth_code, auth_state, auth_event, server, thread, requests>>

\* str.split(sep)[-1]: what follows the last sep, the string when it has none
RECURSIVE AfterLast(_, _)
AfterLast(str, sep) ==
    IF \E i \in 1..Len(str) : str[i] = sep
    THEN AfterLast(SubSeq(str, 1 + (CHOOSE i \in 1..Len(str) : str[i] = sep), Len(str)), sep)
    ELSE str

\* str.split(sep)[0]: what precedes the first sep, the string when it has none
BeforeFirst(str, sep) ==
    IF \E i \in 1..Len(str) : str[i] = sep
    THEN SubSeq(str, 1, (CHOOSE i \in 1..Len(str) : str[i] = sep /\ \A j \in 1..(i - 1) : str[j] # sep) - 1)
    ELSE str

Digits == <<"0", "1", "2", "3", "4", "5", "6", "7", "8", "9">>

\* int(str) of a string of decimal digits; None when int raises ValueError
RECURSIVE int(_)
int(str) ==
    IF str = <<>> \/ \E i \in 1..Len(str) : \A d \in 1..10 : Digits[d] # str[i] THEN None
    ELSE IF Len(str) = 1 THEN [int |-> (CHOOSE d \in 1..10 : Digits[d] = str[1]) - 1]
    ELSE [int |-> 10 * int(SubSeq(str, 1, Len(str) - 1)).int
                  + int(SubSeq(str, Len(str), Len(str))).int]

PortError == Exc("ValueError", 0, "Could not extract port from redirect URI")

extract_port_from_redirect_uri_Default(uri) ==
    LET port == int(BeforeFirst(AfterLast(uri, ":"), "/"))
    IN  IF port = None THEN [ret |-> [int |-> 80], exc |-> NoExc]
        ELSE [ret |-> port, exc |-> NoExc]

\* extract_port_from_redirect_uri(redirect_uri): the port, or the ValueError;
\* int(redirect_uri.split(":")[-1].split("/")[0]), each intermediate value
\* computed once
extract_port_from_redirect_uri(uri) ==
    CHOOSE r \in { IF port = None THEN [ret |-> None, exc |-> PortError]
                   ELSE [ret |-> port, exc |-> NoExc]
                   : port \in { int(first) : first \in { BeforeFirst(last, "/")
                                 : last \in { AfterLast(u, ":") : u \in {uri} } } } } : TRUE

\* lines 81-100: get_redirect_uri, extract_port_from_redirect_uri, the three
\* variables of the callback, start_oauth_server.  The bind fails while a
\* socket is still listening on the port
StartOauthServer ==
    /\ pc = "authorize"
    /\ IF redirect_uri = None
       THEN Raise(Exc("ValueError", 0, "KROGER_REDIRECT_URI"))
       ELSE IF extract_port_from_redirect_uri(redirect_uri.uri).exc # NoExc
       THEN Raise(extract_port_from_redirect_uri(redirect_uri.uri).exc)
       ELSE IF server.socket = "bound"
       THEN Raise(Exc("OSError", 0, "address in use"))
       ELSE /\ auth_code' = NoCode
            /\ auth_state' = None
            /\ auth_event' = FALSE
            /\ server' = Server("bound", FALSE, FALSE)
            /\ thread' = "created"
            /\ requests' = <<>>
            /\ pc' = "state"
            /\ call' = [call EXCEPT !.part = "authorize", !.tok = <<>>, !.res = <<>>, !.refresh = 0,
                                    !.started = TRUE]
            /\ UNCHANGED state
    /\ UNCHANGED <<slots, token_info, token_file, config>>

\* lines 104-113: generate_random_state, get_authorization_url,
\* open_browser_for_auth, which opens the browser or raises
OpenBrowserForAuth ==
    /\ pc = "state"
    /\ state' = SentState
    /\ \/ /\ pc' = "wait"
          /\ call' = [call EXCEPT !.directed = TRUE]
       \/ /\ pc' = "except"
          /\ call' = [call EXCEPT !.exc = Exc("Error", 0, "webbrowser")]
    /\ UNCHANGED <<slots, token_info, token_file, config, auth_code, auth_state, auth_event,
                   server, thread, requests>>

\* line 117: auth_event.wait(timeout) returns true
Wait ==
    /\ pc = "wait"
    /\ auth_event
    /\ pc' = "check"
    /\ UNCHANGED <<slots, token_info, token_file, config, call, state, auth_code, auth_state,
                   auth_event, server, thread, requests>>

\* lines 117-118: the timeout passes with the event not set
Timeout ==
    /\ pc = "wait"
    /\ ~auth_event
    /\ pc' = "except"
    /\ call' = [call EXCEPT !.exc = Exc("TimeoutError", 0, "")]
    /\ UNCHANGED <<slots, token_info, token_file, config, state, auth_code, auth_state,
                   auth_event, server, thread, requests>>

\* mutant of StateMismatch: a callback without state is let through
StateMismatch_MissingAccepted(received, sent) == received # None /\ received # sent

\* line 121: `auth_state != state'
StateMismatch(received, sent) == received # sent

\* lines 121-122
CheckState ==
    /\ pc = "check"
    /\ IF StateMismatch(auth_state, state)
       THEN /\ pc' = "except"
            /\ call' = [call EXCEPT !.exc = Exc("ValueError", 0, "State parameter mismatch")]
       ELSE /\ pc' = "exchange"
            /\ UNCHANGED call
    /\ UNCHANGED <<slots, token_info, token_file, config, state, auth_code, auth_state,
                   auth_event, server, thread, requests>>

\* line 126: get_token_with_authorization_code(auth_code)
ExchangeCode ==
    /\ pc = "exchange"
    /\ \E o \in get_token_with_authorization_code(slots, token_info, auth_code) :
          /\ slots' = o.slots
          /\ token_info' = o.token_info
          /\ token_file' = UserFile
          /\ pc' = IF o.exc = NoExc THEN "finally" ELSE "except"
          /\ call' = [call EXCEPT !.tok = @ \o o.tok, !.exc = o.exc,
                                  !.ret = IF o.exc = NoExc THEN o.token_info ELSE None]
    /\ UNCHANGED <<config, state, auth_code, auth_state, auth_event, server, thread, requests>>

\* server.shutdown() of line 133 and of line 137, first half: ask the serving
\* loop to stop
Shutdown ==
    /\ pc \in {"except", "finally"}
    /\ server' = [server EXCEPT !.shutdown_request = TRUE]
    /\ pc' = IF pc = "except" THEN "except_wait" ELSE "finally_wait"
    /\ UNCHANGED <<slots, token_info, token_file, config, call, state, auth_code, auth_state,
                   auth_event, thread, requests>>

\* server.shutdown(), second half: wait until the serving loop has stopped;
\* after line 133 comes `raise e' and with it the finally clause
ShutdownWait ==
    /\ pc \in {"except_wait", "finally_wait"}
    /\ server.is_shut_down
    /\ pc' = IF pc = "except_wait" THEN "finally" ELSE "done"
    /\ UNCHANGED <<slots, token_info, token_file, config, call, state, auth_code, auth_state,
                   auth_event, server, thread, requests>>

\* the caller has the session, or has handled the exception, and the frame of
\* the call is gone
Return ==
    /\ pc = "done"
    /\ pc' = "idle"
    /\ call' = Idle
    /\ state' = None
    /\ auth_code' = NoCode
    /\ auth_state' = None
    /\ auth_event' = FALSE
    /\ requests' = <<>>
    /\ UNCHANGED <<slots, token_info, token_file, config, server, thread>>

\* the frame of the call that started the server still exists: the call is
\* running, or it has raised and the exception, which refers to the frame, is
\* being handled
FrameAlive ==
    /\ call # Idle
    /\ call.op = "authenticate_user"
    /\ call.started
    /\ ~(pc = "done" /\ call.exc = NoExc)

\* The flow never calls server_close(): the listening socket is closed when
\* the runtime reclaims the server object, which it can do once nothing refers
\* to it: the serving thread has ended and the frame of the call is gone
Reclaim ==
    /\ server.socket = "bound"
    /\ thread = "exited"
    /\ ~FrameAlive
    /\ server' = [server EXCEPT !.socket = "closed"]
    /\ UNCHANGED <<slots, token_info, token_file, config, call, pc, state, auth_code, auth_state,
                   auth_event, thread, requests>>

\* the thread of start_oauth_server enters serve_forever
ServeForever ==
    /\ thread = "created"
    /\ thread' = "poll"
    /\ server' = [server EXCEPT !.is_shut_down = FALSE]
    /\ UNCHANGED <<slots, token_info, token_file, config, call, pc, state, auth_code, auth_state,
                   auth_event, requests>>

\* serve_forever sees the shutdown request and leaves its loop
ServeExit ==
    /\ thread = "poll"
    /\ server.shutdown_request
    /\ thread' = "exited"
    /\ server' = [server EXCEPT !.shutdown_request = FALSE, !.is_shut_down = TRUE]
    /\ UNCHANGED <<slots, token_info, token_file, config, call, pc, state, auth_code, auth_state,
                   auth_event, requests>>

\* a redirect request: the k-th one carries code k or no code, and no state,
\* a state of its sender's making, or the state the flow has put in the URL;
\* status is the status of the page do_GET sends, callback whether it goes on
\* to call the callback
Request(code, st, status, callback) ==
    [code |-> code, state |-> st, status |-> status, callback |-> callback]

RedirectStates == {None, ForgedState} \cup (IF state # None THEN {state} ELSE {})

\* OAuth2Handler.do_GET up to the call of the callback.  The page is written to
\* the connection before the callback is called: when the client has reset the
\* connection the write raises (written is FALSE), the handler ends there and
\* the server goes on serving
DoGet ==
    /\ thread = "poll"
    /\ ~server.shutdown_request
    /\ Len(requests) < MaxRequests
    /\ \E code \in {NoCode, Len(requests) + 1} : \E st \in RedirectStates : \E written \in BOOLEAN :
          IF code # NoCode
          THEN /\ requests' = Append(requests, Request(code, st, 200, written))
               /\ thread' = IF written THEN "auth_code" ELSE "poll"
          ELSE /\ requests' = Append(requests, Request(code, st, 400, FALSE))
               /\ thread' = "poll"
    /\ UNCHANGED <<slots, token_info, token_file, config, call, pc, state, auth_code, auth_state,
                   auth_event, server>>

\* on_code_received, lines 95-97, one assignment at a time
OnCodeReceived ==
    /\ thread \in {"auth_code", "auth_state", "auth_event"}
    /\ LET request == requests[Len(requests)]
       IN  /\ auth_code' = IF thread = "auth_code" THEN request.code ELSE auth_code
           /\ auth_state' = IF thread = "auth_state" THEN request.state ELSE auth_state
           /\ auth_event' = IF thread = "auth_event" THEN TRUE ELSE auth_event
    /\ thread' = IF thread = "auth_code" THEN "auth_state"
                 ELSE IF thread = "auth_state" THEN "auth_event" ELSE "poll"
    /\ UNCHANGED <<slots, token_info, token_file, config, call, pc, state, server, requests>>

FlowNext ==
    \/ AuthenticateUser
    \/ StartOauthServer
    \/ OpenBrowserForAuth
    \/ Wait
    \/ Timeout
    \/ CheckState
    \/ ExchangeCode
    \/ Shutdown
    \/ ShutdownWait
    \/ Return
    \/ Reclaim
    \/ ServeForever
    \/ ServeExit
    \/ DoGet
    \/ OnCodeReceived

FlowSpec == Init /\ [][FlowNext]_vars

(***************************************************************************)
(* Termination of authenticate_user                                        *)
(*                                                                         *)
(* HTTPServer handles a connection in the thread that runs serve_forever,  *)
(* and the handler reads the request line from a socket that has no        *)
(* timeout.  DoGet is the case of a client whose request is there when the *)
(* connection is accepted; Accept and ReadRequest take the two halves      *)
(* apart: between them the serving thread is inside the handler, waiting   *)
(* for the client, and does not look at the shutdown request.              *)
(***************************************************************************)
\* serve_forever accepts a connection whose client has sent no request yet:
\* the handler blocks in the read of the request line
Accept ==
    /\ thread = "poll"
    /\ ~server.shutdown_request
    /\ Len(requests) < MaxRequests
    /\ thread' = "read"
    /\ UNCHANGED <<slots, token_info, token_file, config, call, pc, state, auth_code, auth_state,
                   auth_event, server, requests>>

\* the client of the accepted connection sends its request, which do_GET
\* handles as in DoGet, or closes the connection, which ends the handler
ReadRequest ==
    /\ thread = "read"
    /\ \/ \E code \in {NoCode, Len(requests) + 1} : \E st \in RedirectStates : \E written \in BOOLEAN :
             IF code # NoCode
             THEN /\ requests' = Append(requests, Request(code, st, 200, written))
                  /\ thread' = IF written THEN "auth_code" ELSE "poll"
             ELSE /\ requests' = Append(requests, Request(code, st, 400, FALSE))
                  /\ thread' = "poll"
       \/ /\ thread' = "poll"
          /\ UNCHANGED requests
    /\ UNCHANGED <<slots, token_info, token_file, config, call, pc, state, auth_code, auth_state,
                   auth_event, server>>

\* the steps of authenticate_user after line 79: the interpreter runs them,
\* auth_event.wait returns at the latest when the timeout has passed, and the
\* token endpoint answers the exchange
MainFlow ==
    \/ StartOauthServer
    \/ OpenBrowserForAuth
    \/ Wait
    \/ Timeout
    \/ CheckState
    \/ ExchangeCode
    \/ Shutdown
    \/ ShutdownWait

\* the steps of the serving thread that wait for nothing outside the program
ServerThread ==
    \/ ServeForever
    \/ ServeExit
    \/ OnCodeReceived

LiveNext ==
    \/ AuthenticateUser
    \/ StartOauthServer
    \/ OpenBrowserForAuth
    \/ Wait
    \/ Timeout
    \/ CheckState
    \/ ExchangeCode
    \/ Shutdown
    \/ ShutdownWait
    \/ Return
    \/ Reclaim
    \/ ServeForever
    \/ ServeExit
    \/ DoGet
    \/ Accept
    \/ ReadRequest
    \/ OnCodeReceived

\* both threads are scheduled; the clients of the callback server, the caller
\* and the reclaiming of the server object are under no obligation
LiveSpec == Init /\ [][LiveNext]_vars /\ WF_vars(MainFlow) /\ WF_vars(ServerThread)

(***************************************************************************)
(* token_storage.py on its own: any record saved to a slot, any slot loaded *)
(***************************************************************************)
\* the slots the store is exercised on
StoreFiles == {UserFile, ClientFile(<<"product.compact">>)}

\* save_token(rec, file); before is what the slot held
SaveToken ==
    /\ \E rec \in Records : \E file \in StoreFiles : \E o \in save_token(slots, rec, file) :
          /\ slots' = o.slots
          /\ call' = [op |-> "save_token", file |-> file, rec |-> rec, exc |-> o.exc,
                      before |-> slots[file]]
    /\ UNCHANGED <<token_info, token_file, config, interactive>>

\* load_token(file); saved is the record the call just before it saved to this
\* slot, if it was such a save, and before what the slot held before that save
LoadToken ==
    /\ \E file \in StoreFiles :
          LET follows == call.op = "save_token" /\ call.file = file
          IN  call' = [op |-> "load_token", file |-> file, content |-> slots[file],
                       ret |-> load_token(slots, file), exc |-> load_token_raises(slots, file),
                       saved |-> IF follows THEN call.rec ELSE None,
                       before |-> IF follows THEN call.before ELSE Absent]
    /\ UNCHANGED <<slots, token_info, token_file, config, interactive>>

\* get_refresh_token(file)
GetRefreshToken ==
    /\ \E file \in StoreFiles :
          call' = [op |-> "get_refresh_token", file |-> file, content |-> slots[file],
                   ret |-> get_refresh_token(slots, file),
                   exc |-> get_refresh_token_raises(slots, file)]
    /\ UNCHANGED <<slots, token_info, token_file, config, interactive>>

\* what a slot file can hold that is no record
Damaged == {Corrupt, Undecodable, NotObject}

\* something other than the program leaves a slot file damaged
Damage ==
    /\ \E file \in StoreFiles : \E content \in Damaged :
          /\ slots' = [slots EXCEPT ![file] = content]
          /\ call' = [op |-> "damage", file |-> file]
    /\ UNCHANGED <<token_info, token_file, config, interactive>>

StoreNext ==
    \/ SaveToken
    \/ LoadToken
    \/ GetRefreshToken
    \/ Damage

StoreSpec == Init /\ [][StoreNext]_vars

(***************************************************************************)
(* The session on slots that hold any record: before the session uses a    *)
(* slot, a record of any shape is saved to it (by an earlier run, or by a  *)
(* caller of save_token), then the session asks for a client-credentials   *)
(* token and makes resource calls.                                         *)
(***************************************************************************)

\* save_token(rec, file) before the session's first operation
SaveTokenBefore ==
    /\ token_file = NoFile
    /\ call = Idle
    /\ SaveToken

RecordNext ==
    \/ SaveTokenBefore
    \/ GetTokenWithClientCredentials
    \/ CallMakeRequest
    \/ Resume

RecordSpec == Init /\ [][RecordNext]_vars

(***************************************************************************)
(* PKCE (utils/pkce.py).  The conversions are computed as the library      *)
(* computes them: hashlib.sha256 on the bytes of the verifier,             *)
(* base64.urlsafe_b64encode on the digest.  A 32-bit word is a pair        *)
(* <<high 16 bits, low 16 bits>>.                                          *)
(***************************************************************************)

\* bit i of n
Bit(n, i) == (n \div (2 ^ i)) % 2

\* exclusive or and conjunction of two 4-bit numbers
Xor4 == [a \in 0..15 |-> [b \in 0..15 |->
            LET x(i) == (Bit(a, i) + Bit(b, i)) % 2
            IN  x(0) + 2 * x(1) + 4 * x(2) + 8 * x(3)]]

And4 == [a \in 0..15 |-> [b \in 0..15 |->
            LET x(i) == Bit(a, i) * Bit(b, i)
            IN  x(0) + 2 * x(1) + 4 * x(2) + 8 * x(3)]]

\* a 4-bit operation applied to the four nibbles of two 16-bit numbers
Op16(T, a, b) ==
      T[a \div 4096][b \div 4096] * 4096
    + T[(a \div 256) % 16][(b \div 256) % 16] * 256
    + T[(a \div 16) % 16][(b \div 16) % 16] * 16
    + T[a % 16][b % 16]

XOR(x, y) == <<Op16(Xor4, x[1], y[1]), Op16(Xor4, x[2], y[2])>>

AND(x, y) == <<Op16(And4, x[1], y[1]), Op16(And4, x[2], y[2])>>

NOT(x) == <<65535 - x[1], 65535 - x[2]>>

\* addition modulo 2^32
ADD(x, y) ==
    LET lo == x[2] + y[2]
        hi == x[1] + y[1] + (lo \div 65536)
    IN  <<hi % 65536, lo % 65536>>

RECURSIVE ROTR(_, _)
ROTR(x, n) ==
    IF n >= 16 THEN ROTR(<<x[2], x[1]>>, n - 16)
    ELSE IF n = 0 THEN x
    ELSE <<(x[1] \div (2 ^ n)) + (x[2] % (2 ^ n)) * (2 ^ (16 - n)),
           (x[2] \div (2 ^ n)) + (x[1] % (2 ^ n)) * (2 ^ (16 - n))>>

SHR(x, n) ==
    IF n >= 16 THEN <<0, x[1] \div (2 ^ (n - 16))>>
    ELSE <<x[1] \div (2 ^ n),
           (x[2] \div (2 ^ n)) + (x[1] % (2 ^ n)) * (2 ^ (16 - n))>>

XOR3(x, y, z) == XOR(XOR(x, y), z)

Ch(x, y, z) == XOR(AND(x, y), AND(NOT(x), z))

Maj(x, y, z) == XOR3(AND(x, y), AND(x, z), AND(y, z))

BigSigma0(x) == XOR3(ROTR(x, 2), ROTR(x, 13), ROTR(x, 22))

BigSigma1(x) == XOR3(ROTR(x, 6), ROTR(x, 11), ROTR(x, 25))

SmallSigma0(x) == XOR3(ROTR(x, 7), ROTR(x, 18), SHR(x, 3))

SmallSigma1(x) == XOR3(ROTR(x, 17), ROTR(x, 19), SHR(x, 10))

\* the initial hash value and the round constants of SHA-256
InitialHash ==
    << <<27145, 58983>>, <<47975, 44677>>, <<15470, 62322>>, <<42319, 62778>>,
       <<20750, 21119>>, <<39685, 26764>>, <<8067, 55723>>, <<23520, 52505>> >>

RoundConstants ==
    << <<17034, 12184>>, <<28983, 17553>>, <<46528, 64463>>, <<59829, 56229>>,
       <<14678, 49755>>, <<23025, 4593>>, <<37439, 33444>>, <<43804, 24277>>,
       <<55303, 43672>>, <<4739, 23297>>, <<9265, 34238>>, <<21772, 32195>>,
       <<29374, 23924>>, <<32990, 45566>>, <<39900, 1703>>, <<49563, 61812>>,
       <<58523, 27073>>, <<61374, 18310>>, <<4033, 40390>>, <<9228, 41420>>,
       <<11753, 11375>>, <<19060, 33962>>, <<23728, 43484>>, <<30457, 35034>>,
       <<38974, 20818>>, <<43057, 50797>>, <<45059, 10184>>, <<48985, 32711>>,
       <<50912, 3059>>, <<54695, 37191>>, <<1738, 25425>>, <<5161, 10599>>,
       <<10167, 2693>>, <<11803, 8504>>, <<19756, 28156>>, <<21304, 3347>>,
       <<25866, 29524>>, <<30314, 2747>>, <<33218, 51502>>, <<37490, 11397>>,
       <<41663, 59553>>, <<43034, 26187>>, <<49739, 35696>>, <<51052, 20899>>,
       <<53650, 59417>>, <<54937, 1572>>, <<62478, 13701>>, <<4202, 41072>>,
       <<6564, 49430>>, <<7735, 27656>>, <<10056, 30540>>, <<13488, 48309>>,
       <<14620, 3251>>, <<20184, 43594>>, <<23452, 51791>>, <<26670, 28659>>,
       <<29839, 33518>>, <<30885, 25455>>, <<33992, 30740>>, <<36039, 520>>,
       <<37054, 65530>>, <<42064, 27883>>, <<48889, 41975>>, <<50801, 30962>> >>

\* n zero bytes
Zeros(n) == [i \in 1..n |-> 0]

\* the message followed by the byte 128, zero bytes up to 56 modulo 64 and the
\* length of the message in bits as eight bytes
Pad(bytes) ==
    LET n == Len(bytes)
        z == (119 - (n % 64)) % 64
        bits == 8 * n
    IN  bytes \o <<128>> \o Zeros(z) \o Zeros(4)
              \o <<bits \div 16777216, (bits \div 65536) % 256,
                   (bits \div 256) % 256, bits % 256>>

\* the sixteen words of block b of the padded message
BlockWords(padded, b) ==
    [i \in 1..16 |->
        LET o == 64 * (b - 1) + 4 * (i - 1)
        IN  <<padded[o + 1] * 256 + padded[o + 2], padded[o + 3] * 256 + padded[o + 4]>>]

\* the message schedule: sixteen words extended to sixty-four
RECURSIVE Schedule(_)
Schedule(W) ==
    IF Len(W) = 64 THEN W
    ELSE LET t == Len(W) + 1
         IN  Schedule(Append(W, ADD(ADD(SmallSigma1(W[t - 2]), W[t - 7]),
                                    ADD(SmallSigma0(W[t - 15]), W[t - 16]))))

\* the rounds from s.t to 64 on the working variables s.v = <<a, b, c, d, e, f, g, h>>
RECURSIVE Rounds(_, _)
Rounds(s, W) ==
    IF s.t > 64 THEN s.v
    ELSE LET v == s.v
             T1 == ADD(ADD(ADD(v[8], BigSigma1(v[5])), ADD(Ch(v[5], v[6], v[7]), RoundConstants[s.t])), W[s.t])
             T2 == ADD(BigSigma0(v[1]), Maj(v[1], v[2], v[3]))
         IN  Rounds([t |-> s.t + 1,
                     v |-> <<ADD(T1, T2), v[1], v[2], v[3], ADD(v[4], T1), v[5], v[6], v[7]>>], W)

\* the hash value h with the working variables s added to it, word by word
AddWords(h, s) ==
    <<ADD(h[1], s[1]), ADD(h[2], s[2]), ADD(h[3], s[3]), ADD(h[4], s[4]),
      ADD(h[5], s[5]), ADD(h[6], s[6]), ADD(h[7], s[7]), ADD(h[8], s[8])>>

\* the hash value after blocks b.. of the padded message, from hash value h
RECURSIVE Blocks(_, _, _)
Blocks(h, padded, b) ==
    IF 64 * (b - 1) >= Len(padded) THEN h
    ELSE Blocks(AddWords(h, Rounds([t |-> 1, v |-> h], Schedule(BlockWords(padded, b)))),
                padded, b + 1)

\* the thirty-two bytes of a hash value of eight words
Digest(h) ==
    [i \in 1..32 |->
        IF (i - 1) % 4 = 0 THEN h[((i - 1) \div 4) + 1][1] \div 256
        ELSE IF (i - 1) % 4 = 1 THEN h[((i - 1) \div 4) + 1][1] % 256
        ELSE IF (i - 1) % 4 = 2 THEN h[((i - 1) \div 4) + 1][2] \div 256
        ELSE h[((i - 1) \div 4) + 1][2] % 256]

\* hashlib.sha256(bytes).digest()
sha256(bytes) == Digest(Blocks(InitialHash, Pad(bytes), 1))

\* the URL-safe base64 alphabet, and the padding character
Alphabet ==
    << "A", "B", "C", "D", "E", "F", "G", "H", "I", "J", "K", "L", "M",
       "N", "O", "P", "Q", "R", "S", "T", "U", "V", "W", "X", "Y", "Z",
       "a", "b", "c", "d", "e", "f", "g", "h", "i", "j", "k", "l", "m",
       "n", "o", "p", "q", "r", "s", "t", "u", "v", "w", "x", "y", "z",
       "0", "1", "2", "3", "4", "5", "6", "7", "8", "9", "-", "_" >>

Padding == "="

\* the ASCII code of a character of the alphabet
Ascii(c) ==
    LET k == CHOOSE i \in 1..64 : Alphabet[i] = c
    IN  IF k <= 26 THEN 64 + k
        ELSE IF k <= 52 THEN 70 + k
        ELSE IF k <= 62 THEN k - 5
        ELSE IF k = 63 THEN 45
        ELSE 95

\* str.encode('ascii') of a string over the alphabet
encode(str) == [i \in 1..Len(str) |-> Ascii(str[i])]

\* base64.urlsafe_b64encode(bytes), decoded to characters
RECURSIVE urlsafe_b64encode(_)
urlsafe_b64encode(bytes) ==
    LET n == Len(bytes)
        c(k) == Alphabet[k + 1]
    IN  IF n = 0 THEN <<>>
        ELSE IF n = 1 THEN
            <<c(bytes[1] \div 4), c((bytes[1] % 4) * 16), Padding, Padding>>
        ELSE IF n = 2 THEN
            <<c(bytes[1] \div 4), c((bytes[1] % 4) * 16 + (bytes[2] \div 16)),
              c((bytes[2] % 16) * 4), Padding>>
        ELSE
            <<c(bytes[1] \div 4), c((bytes[1] % 4) * 16 + (bytes[2] \div 16)),
              c((bytes[2] % 16) * 4 + (bytes[3] \div 64)), c(bytes[3] % 64)>>
            \o urlsafe_b64encode(SubSeq(bytes, 4, n))

\* str.rstrip('=')
RECURSIVE rstrip(_)
rstrip(str) ==
    IF str # <<>> /\ str[Len(str)] = Padding THEN rstrip(SubSeq(str, 1, Len(str) - 1))
    ELSE str

\* the largest number of random bytes a verifier is generated from
MaxLength == 64

\* the numbers of random bytes: the remainders modulo three that base64 pads
\* differently, the length that gives a verifier as long as a challenge, and
\* the default length
Lengths == {0, 1, 2, 3, MaxLength \div 2, MaxLength}

\* the values a random byte is drawn from
RandomByteValues == {0, 170, 255}

\* secrets.token_bytes(length): the byte strings the random source can give,
\* here those that alternate between two values
token_bytes(length) ==
    {[i \in 1..length |-> IF i % 2 = 1 THEN a ELSE b] :
        a \in RandomByteValues, b \in RandomByteValues}

\* generate_code_verifier(length), where bytes is what the random source gave:
\* secrets.token_urlsafe
generate_code_verifier(bytes) == rstrip(urlsafe_b64encode(bytes))

\* the error of an unsupported method
UnsupportedMethod == Exc("ValueError", 0, "Unsupported code challenge method")

\* the methods a caller passes
Methods == {"S256", "plain", "S512"}

generate_code_challenge_AlwaysPlain(code_verifier, method) ==
    IF method \in {"S256", "plain"} THEN [ret |-> code_verifier, exc |-> NoExc]
    ELSE [ret |-> None, exc |-> UnsupportedMethod]

generate_code_challenge_DefaultsToPlain(code_verifier, method) ==
    IF method = "S256"
    THEN [ret |-> rstrip(urlsafe_b64encode(sha256(encode(code_verifier)))), exc |-> NoExc]
    ELSE [ret |-> code_verifier, exc |-> NoExc]

\* generate_code_challenge(code_verifier, method): what it returns, or raises
generate_code_challenge(code_verifier, method) ==
    IF method = "S256"
    THEN [ret |-> rstrip(urlsafe_b64encode(sha256(encode(code_verifier)))), exc |-> NoExc]
    ELSE IF method = "plain" THEN [ret |-> code_verifier, exc |-> NoExc]
    ELSE [ret |-> None, exc |-> UnsupportedMethod]

\* lines 60-64 of generate_pkce_parameters: the dict of a verifier and of what
\* generate_code_challenge gave for it, or the exception that propagates
PkceParameters(code_verifier, code_challenge, method) ==
    IF code_challenge.exc # NoExc THEN [ret |-> None, exc |-> code_challenge.exc]
    ELSE [ret |-> [code_verifier |-> code_verifier,
                   code_challenge |-> code_challenge.ret,
                   code_challenge_method |-> method],
          exc |-> NoExc]

\* generate_pkce_parameters(length, method), where code_verifier is what its
\* call of generate_code_verifier(length) returned
generate_pkce_parameters(code_verifier, method) ==
    PkceParameters(code_verifier, generate_code_challenge(code_verifier, method), method)

\* the PKCE functions are applied on one platform and configuration
PkceInit ==
    /\ Init
    /\ redirect_uri = None
    /\ chmod_supported

\* generate_code_verifier(length)
GenerateCodeVerifier ==
    /\ call = Idle
    /\ \E length \in Lengths : \E bytes \in token_bytes(length) :
          call' = [op |-> "generate_code_verifier", length |-> length,
                   ret |-> generate_code_verifier(bytes)]
    /\ UNCHANGED <<slots, token_info, token_file, config, interactive>>

\* generate_code_challenge(code_verifier, method), on a generated verifier, and
\* once more on the same verifier; first is the call before
GenerateCodeChallenge ==
    /\ \/ call.op = "generate_code_verifier"
       \/ call.op = "generate_code_challenge" /\ call.first = None
    /\ \E method \in Methods :
          LET code_verifier == IF call.op = "generate_code_verifier" THEN call.ret
                               ELSE call.code_verifier
              r == generate_code_challenge(code_verifier, method)
          IN  call' = [op |-> "generate_code_challenge", code_verifier |-> code_verifier,
                       method |-> method, ret |-> r.ret, exc |-> r.exc,
                       first |-> IF call.op = "generate_code_verifier" THEN None
                                 ELSE [method |-> call.method, ret |-> call.ret,
                                       exc |-> call.exc]]
    /\ UNCHANGED <<slots, token_info, token_file, config, interactive>>

\* generate_pkce_parameters(length, method)
GeneratePkceParameters ==
    /\ call = Idle
    /\ \E length \in Lengths : \E bytes \in token_bytes(length) :
       \E code_verifier \in {generate_code_verifier(bytes)} : \E method \in Methods :
          LET r == generate_pkce_parameters(code_verifier, method)
          IN  call' = [op |-> "generate_pkce_parameters", length |-> length,
                       method |-> method, ret |-> r.ret, exc |-> r.exc]
    /\ UNCHANGED <<slots, token_info, token_file, config, interactive>>

PkceNext ==
    \/ GenerateCodeVerifier
    \/ GenerateCodeChallenge
    \/ GeneratePkceParameters

PkceSpec == PkceInit /\ [][PkceNext]_vars

(***************************************************************************)
(* Properties                                                              *)
(***************************************************************************)
IsCall(op) == call # Idle /\ call.op = op

\* the slot the call addressed held a record with a refresh token
SlotHadRefreshToken == call.before.kind = "json" /\ json_load(call.before.text).rt # NoField

InvalidToken401(resp) == resp.status = 401 /\ resp.json /\ resp.error = "invalid_token"

\* a response _make_request turns into a result
Succeeds(resp) == resp.status = 204 \/ (resp.status = 200 /\ resp.json)

\* the token endpoint accepted the grant
Accepted(resp) == resp.status = 200 /\ resp.json

\* the first send of _make_request was answered 401 invalid_token
FirstSendInvalidToken ==
    /\ IsCall("_make_request")
    /\ Len(call.res) >= 1
    /\ InvalidToken401(call.res[1].resp)

\* ... and a refresh token was available, the refresh was accepted and the
\* call was sent again
RefreshedAndRetried ==
    /\ FirstSendInvalidToken
    /\ call.file # NoFile /\ SlotHadRefreshToken
    /\ Len(call.tok) = 1 /\ Accepted(call.tok[1].resp)
    /\ Len(call.res) = 2

\* C1: _make_request, after a 401 invalid_token, a successful refresh with the
\* active slot's refresh token and a successful retried call, returns the
\* retried call's result, and the retried call carries the access token of the
\* refreshed record (the session's token from then on), not the rejected one.
C1_RetryReturnsResultWithNewToken ==
    (RefreshedAndRetried /\ Succeeds(call.res[2].resp)) =>
        /\ call.exc = NoExc
        /\ call.data = (IF call.res[2].resp.status = 204 THEN 0 ELSE call.res[2].resp.data)
        /\ call.tok[1].req.grant = "refresh_token"
        /\ call.tok[1].req.rt = json_load(call.before.text).rt
        /\ call.res[2].bearer = call.tok[1].resp.rec.at
        /\ token_info = call.tok[1].resp.rec

\* C1 witness: a retried call that succeeded with a token other than the
\* rejected one.
C1_Witness ==
    /\ RefreshedAndRetried
    /\ Succeeds(call.res[2].resp)
    /\ call.res[2].resp.data = 2
    /\ call.res[2].bearer # call.res[1].bearer

\* C2: one _make_request sends at most one request to the token endpoint (a
\* refresh) and sends the call at most twice; when the retried call is again
\* answered 401, the call raises a 401 HTTPError.
C2_AtMostOneRefreshAndOneRetry ==
    IsCall("_make_request") =>
        /\ Len(call.tok) <= 1
        /\ \A i \in 1..Len(call.tok) : call.tok[i].req.grant = "refresh_token"
        /\ Len(call.res) <= 2
        /\ (Len(call.res) = 2 /\ call.res[2].resp.status = 401) =>
               (call.exc.exc = "HTTPError" /\ call.exc.status = 401)

\* C2 witness: the retried call was answered 401 again.
C2_Witness ==
    /\ IsCall("_make_request")
    /\ Len(call.res) = 2
    /\ call.res[2].resp.status = 401
    /\ Len(call.tok) = 1

\* C3 (as claimed): when the retried call fails with a failure that is not an
\* auth failure, the caller receives the retried call's failure.
C3_RetryFailureSurfaces ==
    (RefreshedAndRetried /\ ~Succeeds(call.res[2].resp) /\ call.res[2].resp.status # 401) =>
        /\ call.exc # NoExc
        /\ call.exc.status = call.res[2].resp.status
        /\ (call.res[2].resp.status >= 400 => call.exc.exc = "HTTPError")

\* a failure response other than 401 invalid_token
OtherFailure(resp) == resp.status >= 400 /\ ~InvalidToken401(resp)

\* C4 (as claimed): a 5xx, or a 4xx other than 401 invalid_token, is followed by
\* no refresh and no second send, and the caller receives the HTTPError of that
\* response.
C4_OtherFailuresPropagateUnmodified ==
    (IsCall("_make_request") /\ Len(call.res) >= 1 /\ OtherFailure(call.res[1].resp)) =>
        /\ call.tok = <<>>
        /\ Len(call.res) = 1
        /\ call.exc.exc = "HTTPError"
        /\ call.exc.status = call.res[1].resp.status

\* C5: a 401 invalid_token with no refresh token available for the active slot
\* (no active slot, slot absent or unreadable, record without refresh_token):
\* no token request, no retry, and the first send's HTTPError is raised.
C5_NoRefreshTokenNoRetry ==
    (FirstSendInvalidToken /\ (call.file = NoFile \/ ~SlotHadRefreshToken)) =>
        /\ call.tok = <<>>
        /\ Len(call.res) = 1
        /\ call.exc = Exc("HTTPError", 401, "invalid_token")

\* C5 witness: the active slot holds a record without refresh_token.
C5_Witness ==
    /\ FirstSendInvalidToken
    /\ call.file # NoFile
    /\ call.before.kind = "json"
    /\ json_load(call.before.text).rt = NoField

\* the call loaded a record from its slot and the probe of it was sent
ProbedLoadedRecord(op) ==
    /\ IsCall(op)
    /\ call.before.kind = "json"
    /\ Len(call.res) >= 1
    /\ call.res[1].bearer = json_load(call.before.text).at

\* C6: get_token_with_client_credentials that finds a persisted record whose
\* probe succeeds sends nothing to the token endpoint and returns the persisted
\* record, which stays in the slot.
C6_ValidCachedTokenNoTokenCall ==
    (ProbedLoadedRecord("get_token_with_client_credentials") /\ call.res[1].resp.status = 200) =>
        /\ call.tok = <<>>
        /\ call.exc = NoExc
        /\ call.ret = json_load(call.before.text)
        /\ slots[call.file] = call.before

\* C6 witness: the second request of a scope, finding the record of a
\* client_credentials grant still valid.
C6_Witness ==
    /\ ProbedLoadedRecord("get_token_with_client_credentials")
    /\ call.res[1].resp.status = 200
    /\ json_load(call.before.text).rt = NoField

ClientCredentialsExchanges ==
    {i \in 1..Len(call.tok) : call.tok[i].req.grant = "client_credentials"}

\* C7 (as claimed): get_token_with_client_credentials whose slot is absent, or
\* whose record fails the probe, performs exactly one client_credentials
\* exchange, and when it returns, it returns the issued record, which a load of
\* the slot yields.
C7_InvalidOrAbsentExchangesOnce ==
    (/\ IsCall("get_token_with_client_credentials")
     /\ \/ call.before = Absent
        \/ ProbedLoadedRecord("get_token_with_client_credentials") /\ call.res[1].resp.status # 200)
    => /\ Cardinality(ClientCredentialsExchanges) = 1
       /\ call.exc = NoExc =>
             /\ call.ret = call.tok[Len(call.tok)].resp.rec
             /\ load_token(slots, call.file) = call.ret

\* C8 (as claimed): when the client_credentials exchange is rejected, the call
\* raises that failure, returns no record, and the slot holds what it held
\* before the call.
C8_RejectedExchangeLeavesSlot ==
    (/\ IsCall("get_token_with_client_credentials")
     /\ Len(call.tok) >= 1
     /\ call.tok[Len(call.tok)].req.grant = "client_credentials"
     /\ call.tok[Len(call.tok)].resp.status >= 400)
    => /\ call.exc = Exc("HTTPError", call.tok[Len(call.tok)].resp.status, "")
       /\ call.ret = None
       /\ slots[call.file] = call.before

\* the probe of test_token's record failed: no access_token to send, a
\* response other than 200, or no response
ProbeFailed ==
    \/ call.rec.at = NoField
    \/ Len(call.res) = 1 /\ call.res[1].resp.status # 200

\* C9: test_token returns true for a record whose probe succeeds, and returns
\* false, raising nothing and sending no token request, for a record without
\* refresh token whose probe fails.
C9_TestTokenVerdict ==
    IsCall("test_token") =>
        /\ (Len(call.res) = 1 /\ call.res[1].resp.status = 200) => call.flag
        /\ (call.rec.rt = NoField /\ ProbeFailed) =>
               (~call.flag /\ call.exc = NoExc /\ call.tok = <<>>)

\* C9 witness: a record without refresh token whose probe got a non-200 answer.
C9_Witness ==
    /\ IsCall("test_token")
    /\ call.rec.rt = NoField
    /\ Len(call.res) = 1
    /\ call.res[1].resp.status = 401
    /\ ~call.flag

\* C10 (as claimed): refresh_token_if_needed loads a record with a refresh token
\* from a slot; when its probe fails and the refresh it triggers succeeds
\* (test_token returns true), the slot the record was loaded from holds the
\* refreshed record.
C10_RefreshedRecordInLoadedSlot ==
    (/\ IsCall("refresh_token_if_needed")
     /\ SlotHadRefreshToken
     /\ ProbedLoadedRecord("refresh_token_if_needed") /\ call.res[1].resp.status # 200
     /\ Len(call.tok) = 1 /\ Accepted(call.tok[1].resp)
     /\ call.flag)
    => slots[call.file] = Json(call.tok[1].resp.rec)

\* C11: one test_token sends at most one request to the token endpoint, a
\* refresh with the tested record's refresh token; it sends none when the probe
\* is answered 200 or when the record has no refresh_token; and when that one
\* refresh is not accepted it returns false and raises nothing.
C11_TestTokenOneRefresh ==
    IsCall("test_token") =>
        /\ Len(call.tok) <= 1
        /\ \A i \in 1..Len(call.tok) :
               call.tok[i].req.grant = "refresh_token" /\ call.tok[i].req.rt = call.rec.rt
        /\ ((Len(call.res) = 1 /\ call.res[1].resp.status = 200) \/ call.rec.rt = NoField) =>
               call.tok = <<>>
        /\ (Len(call.tok) = 1 /\ ~Accepted(call.tok[1].resp)) =>
               (~call.flag /\ call.exc = NoExc)

\* C11 witness: the probe of a record with a refresh token failed and the
\* refresh was rejected.
C11_Witness ==
    /\ IsCall("test_token")
    /\ Len(call.res) = 1 /\ call.res[1].resp.status = 401
    /\ Len(call.tok) = 1 /\ call.tok[1].resp.status = 400
    /\ ~call.flag

\* every redirect request that carried a code so far carried a state other
\* than the one sent in the authorization URL, or none
AllStatesDiffer ==
    \A i \in 1..Len(requests) :
        requests[i].code # NoCode => requests[i].state # SentState

AuthorizationCodeExchanges ==
    {i \in 1..Len(call.tok) : call.tok[i].req.grant = "authorization_code"}

StateMismatchError == Exc("ValueError", 0, "State parameter mismatch")

\* as long as every callback delivered a state that differs from the sent one
\* (a missing state included), no authorization_code request is sent and the
\* flow does not pass the comparison; the call ends raising the state-mismatch
\* error, unless the wait timed out or the browser could not be opened
NoMatchingStateNoExchange ==
    (IsCall("authenticate_user") /\ call.part = "authorize" /\ AllStatesDiffer) =>
        /\ AuthorizationCodeExchanges = {}
        /\ pc # "exchange"
        /\ call.ret = None
        /\ pc = "done" =>
              \/ call.exc = StateMismatchError
              \/ call.exc = Exc("TimeoutError", 0, "")
              \/ ~call.directed

\* a call that found the received state different from the sent one sends no
\* authorization_code request and goes on to raise
MismatchSeenNoExchange ==
    (IsCall("authenticate_user") /\ call.exc = StateMismatchError) =>
        /\ AuthorizationCodeExchanges = {}
        /\ call.ret = None
        /\ pc \in {"except", "except_wait", "finally", "finally_wait", "done"}

C13_TimeoutReleasesPort ==
    (IsCall("authenticate_user") /\ pc = "done" /\ call.exc = Exc("TimeoutError", 0, "")) =>
        /\ thread = "exited"
        /\ server.socket = "closed"

\* C14 (as claimed): when a call of authenticate_user that started the callback
\* server has returned or raised, the serving thread has ended and the
\* listening socket is closed.
C14_ReceiverShutDownOnEveryExit ==
    (IsCall("authenticate_user") /\ pc = "done" /\ call.started) =>
        /\ thread = "exited"
        /\ server.socket = "closed"

\* C15: when the first validity test of the persisted record says valid,
\* authenticate_user returns at once: no callback server, no browser, no
\* authorization_code request; the session it returns holds the record whose
\* probe was answered 200, or the record a refresh has just issued.
C15_ValidPersistedTokenReturns ==
    (IsCall("authenticate_user") /\ call.before.kind = "json" /\ call.flag) =>
        /\ pc = "done"
        /\ call.part = "saved"
        /\ call.exc = NoExc
        /\ ~call.started /\ ~call.directed
        /\ AuthorizationCodeExchanges = {}
        /\ call.ret = token_info
        /\ \/ /\ call.tok = <<>>
              /\ call.res[Len(call.res)].resp.status = 200
              /\ call.ret = load_token(slots, call.file)
           \/ /\ Len(call.tok) = 1
              /\ Accepted(call.tok[1].resp)
              /\ call.ret = call.tok[1].resp.rec

\* C15 witness: the user slot's record passed its probe.
C15_Witness ==
    /\ IsCall("authenticate_user")
    /\ call.file = UserFile
    /\ call.before.kind = "json"
    /\ call.flag
    /\ call.tok = <<>>
    /\ pc = "done"

\* C16 (as claimed): when the persisted record is not valid and the refresh
\* with the slot's refresh token is accepted and saved, authenticate_user
\* returns the session with a record issued by that refresh or after it, and
\* starts neither the callback server nor the browser.
C16_RefreshedTokenReturns ==
    (/\ IsCall("authenticate_user")
     /\ call.part = "saved"
     /\ call.before.kind = "json"
     /\ ~call.flag
     /\ call.refresh # 0)
    => /\ pc = "done"
       /\ call.exc = NoExc
       /\ ~call.started /\ ~call.directed
       /\ call.ret = call.tok[Len(call.tok)].resp.rec

\* C17 (as claimed): when authenticate_user returns after the browser
\* authorization, it has sent exactly one authorization_code request, with the
\* code of a callback, and the slot it was given holds the issued record.
C17_ExchangedRecordInGivenSlot ==
    (IsCall("authenticate_user") /\ call.part = "authorize" /\ pc = "done" /\ call.exc = NoExc) =>
        /\ Cardinality(AuthorizationCodeExchanges) = 1
        /\ Len(call.tok) = 1
        /\ \E i \in 1..Len(requests) : requests[i].code = call.tok[1].req.code
        /\ load_token(slots, call.file) = call.tok[1].resp.rec

\* C18 (as claimed): within one call of authenticate_user or of
\* refresh_token_if_needed, a refresh token that the token endpoint has
\* rejected (400) is not sent in a later refresh request of that call.
C18_RejectedRefreshTokenNotResent ==
    (IsCall("authenticate_user") \/ IsCall("refresh_token_if_needed")) =>
        \A i \in 1..Len(call.tok) : \A j \in 1..Len(call.tok) :
            (/\ i < j
             /\ call.tok[i].req.grant = "refresh_token"
             /\ call.tok[i].resp.status = 400
             /\ call.tok[j].req.grant = "refresh_token")
            => call.tok[j].req.rt # call.tok[i].req.rt

\* C19 (as claimed): a refresh_token call that returns the refreshed record, made
\* with the refresh token of a record that some slot holds, leaves the refreshed
\* record in every slot that held that record and leaves every other slot as
\* it was.
C19_RefreshReplacesInSameSlot ==
    [][ (/\ call = Idle
         /\ call' # Idle
         /\ call'.op = "refresh_token"
         /\ Accepted(call'.tok[1].resp)
         /\ call'.exc = NoExc
         /\ \E f \in Files : get_refresh_token(slots, f) = call'.rec.rt)
        => \A f \in Files :
              IF get_refresh_token(slots, f) = call'.rec.rt
              THEN slots'[f] = Json(call'.tok[1].resp.rec)
              ELSE slots'[f] = slots[f] ]_vars

\* C20: load_token right after save_token on the same slot returns the saved
\* record, equal in all fields, whether or not the chmod of the save raised;
\* and after a save the slot holds the text of the saved record and nothing of
\* what it held before.
C20_SaveLoadRoundTrip ==
    /\ (IsCall("load_token") /\ call.saved # None) => call.ret = call.saved
    /\ IsCall("save_token") =>
          /\ slots[call.file] = Json(call.rec)
          /\ load_token(slots, call.file) = call.rec

\* C20 witness: a record without refresh token was saved over a record with
\* one, and then loaded.
C20_Witness ==
    /\ IsCall("load_token")
    /\ call.saved # None
    /\ call.saved.rt = NoField
    /\ call.before.kind = "json"
    /\ json_load(call.before.text).rt # NoField
    /\ call.ret = call.saved

\* the slot a load_token or get_refresh_token call read held no record: it did
\* not exist, or its content was damaged
ReadNoRecord ==
    /\ IsCall("load_token") \/ IsCall("get_refresh_token")
    /\ call.content = Absent \/ call.content \in Damaged

\* C21 (as claimed): load_token on a slot that does not exist or whose content
\* is damaged raises nothing and returns None, and so does get_refresh_token.
C21_LoadOfDamagedSlotReturnsNone ==
    ReadNoRecord =>
        /\ call.exc = NoExc
        /\ IsCall("load_token") => call.ret = None
        /\ IsCall("get_refresh_token") => call.ret = NoField

\* a call of generate_code_challenge on a verifier that returned
Challenged(method) ==
    IsCall("generate_code_challenge") /\ call.method = method /\ call.exc = NoExc

\* C22: generate_code_challenge(v, 'S256') gives the same result on every call
\* and a result different from v, and generate_code_challenge(v, 'plain')
\* equals v.
C22_ChallengeOfVerifier ==
    /\ Challenged("S256") => call.ret # call.code_verifier
    /\ Challenged("plain") => call.ret = call.code_verifier
    /\ /\ IsCall("generate_code_challenge")
       /\ call.first # None
       /\ call.first.method = call.method
       => /\ call.first.exc = call.exc
          /\ call.exc = NoExc => call.first.ret = call.ret

\* the second S256 call on a verifier that is as long as its challenge
C22_Witness ==
    /\ Challenged("S256")
    /\ call.first # None
    /\ call.first.method = "S256"
    /\ Len(call.code_verifier) = Len(call.ret)

\* a second witness of C22: plain on a verifier of the default length
C22_WitnessPlain ==
    /\ Challenged("plain")
    /\ Len(call.code_verifier) > 80

\* C23: generate_code_challenge with a method other than 'S256' and 'plain'
\* raises the unsupported-method error and returns no challenge, and
\* generate_pkce_parameters with such a method raises the same error and
\* returns no pair.
C23_UnsupportedMethodFails ==
    /\ IsCall("generate_code_challenge") \/ IsCall("generate_pkce_parameters")
    /\ call.method \notin {"S256", "plain"}
    => /\ call.exc = UnsupportedMethod
       /\ call.ret = None

\* generate_pkce_parameters was called with an unsupported method
C23_Witness ==
    /\ IsCall("generate_pkce_parameters")
    /\ call.method = "S512"
    /\ call.exc = UnsupportedMethod

\* the record the slot held before the call, None when it held none
RecordBefore == IF call.before.kind = "json" THEN json_load(call.before.text) ELSE None

\* the call found a record with no access_token in the slot
FoundNoAccessToken ==
    /\ IsCall("get_token_with_client_credentials")
    /\ RecordBefore # None
    /\ ~HasAccessToken(RecordBefore)

\* C24 (as claimed): a record with no access_token is treated as absent:
\* get_token_with_client_credentials returns no such record, no resource call
\* is sent with a bearer taken from such a record, and
\* get_token_with_client_credentials that finds such a record in the slot
\* sends a client_credentials request.
C24_NoAccessTokenTreatedAsAbsent ==
    /\ IsCall("get_token_with_client_credentials") /\ call.exc = NoExc
          => HasAccessToken(call.ret)
    /\ IsCall("get_token_with_client_credentials") \/ IsCall("_make_request")
          => \A i \in 1..Len(call.res) : call.res[i].bearer # NoField
    /\ FoundNoAccessToken => ClientCredentialsExchanges # {}

\* the step is a call of get_token_with_authorization_code
ExchangesCode == call = Idle /\ call'.op = "get_token_with_authorization_code"

\* the token endpoint answered the call's request with a record
CodeAccepted ==
    /\ Len(call'.tok) = 1
    /\ call'.tok[1].resp.status = 200
    /\ call'.tok[1].resp.json

\* C25: get_token_with_authorization_code with no configured redirect URI
\* raises the configuration error, sends no token-endpoint request and leaves
\* the user slot and the session's current token unchanged; with a redirect URI
\* and an accepted code the user slot holds the returned record afterwards.
C25_ExchangeNeedsRedirectUri ==
    [][ExchangesCode =>
          /\ redirect_uri = None =>
                /\ call'.exc = Exc("ValueError", 0, "")
                /\ call'.ret = None
                /\ call'.tok = <<>>
                /\ slots' = slots
                /\ token_info' = token_info
          /\ redirect_uri # None /\ CodeAccepted =>
                /\ slots'[UserFile] = Json(call'.tok[1].resp.rec)
                /\ call'.exc = NoExc => call'.ret = call'.tok[1].resp.rec]_vars

\* the exchange was refused for want of a redirect URI in a session that has a
\* current token
C25_Witness ==
    /\ IsCall("get_token_with_authorization_code")
    /\ redirect_uri = None
    /\ call.exc = Exc("ValueError", 0, "")
    /\ token_info # None

\* the exchange was accepted and the user slot held another record before
C25_WitnessAccepted ==
    /\ IsCall("get_token_with_authorization_code")
    /\ call.exc = NoExc
    /\ call.before # Absent
    /\ call.before # slots[UserFile]

\* C26 (as claimed): a request that contains a code is answered with the 200
\* page and the callback is called for it; a request without a code is
\* answered with the 400 page and the callback is not called for it, and only a
\* request with a code has released the wait.
C26_ReceiverAnswersAndCalls ==
    /\ \A i \in 1..Len(requests) :
          /\ requests[i].code # NoCode => requests[i].status = 200 /\ requests[i].callback
          /\ requests[i].code = NoCode => requests[i].status = 400 /\ ~requests[i].callback
    /\ auth_event => \E i \in 1..Len(requests) : requests[i].code # NoCode

\* the requests the receiver passed to the callback
Delivered == {i \in 1..Len(requests) : requests[i].callback}

\* the request whose code an authorization_code request of the call carries
\* (the k-th request carries code k)
ExchangedRequests == {call.tok[i].req.code : i \in AuthorizationCodeExchanges}

\* C27 (as claimed): the code authenticate_user exchanges is the code of the
\* first request with a code that reached the callback, and that request
\* carried the state that compared equal to the sent state: no later request
\* has replaced the code or the state.
C27_FirstCallbackIsExchanged ==
    IsCall("authenticate_user") /\ call.part = "authorize" =>
        \A k \in ExchangedRequests :
            /\ k \in Delivered
            /\ \A i \in Delivered : k <= i
            /\ requests[k].state = state

\* the slot holds no record, or a record that the given grant issues
HoldsOnly(file, grant) ==
    slots[file].kind = "json" => json_load(slots[file].text) \in IssuedRecords(grant)

\* C28 (as claimed): every client-credentials slot holds only a record of the
\* client_credentials grant, so never one with a refresh token, and the user
\* slot holds only a record of the authorization-code grant or of a refresh.
C28_SlotsHoldTheirGrant ==
    /\ \A scope \in Scopes :
          /\ HoldsOnly(ClientFile(scope), "client_credentials")
          /\ slots[ClientFile(scope)].kind = "json"
                => json_load(slots[ClientFile(scope)].text).rt = NoField
    /\ HoldsOnly(UserFile, "authorization_code") \/ HoldsOnly(UserFile, "refresh_token")

\* C29 (as claimed): the slot a client-credentials request uses is the slot of
\* its scope, no other scope has the same slot, and it is not the user slot.
C29_OneSlotPerScope ==
    IsCall("get_token_with_client_credentials") =>
        /\ token_file = ClientFile(call.scope)
        /\ call.file = ClientFile(call.scope)
        /\ \A scope \in Scopes : scope # call.scope => ClientFile(scope) # token_file
        /\ token_file # UserFile

\* the port can not be parsed out of the configured redirect URI
PortUnparseable ==
    /\ redirect_uri # None
    /\ int(BeforeFirst(AfterLast(redirect_uri.uri, ":"), "/")) = None

\* C30: when the port can not be parsed out of the redirect URI, no listener is
\* ever bound and the user is never directed to the authorization URL, and a
\* call of authenticate_user that comes to the authorization ends at once with
\* the configuration error.
C30_UnparseablePortFailsEarly ==
    PortUnparseable =>
        /\ server = NoServer
        /\ thread = "none"
        /\ requests = <<>>
        /\ pc \in {"idle", "authorize", "done"}
        /\ IsCall("authenticate_user") =>
              /\ ~call.started
              /\ ~call.directed
              /\ pc = "done" /\ call.ret = None => call.exc = PortError

\* authenticate_user has failed on the port of the redirect URI
C30_Witness ==
    /\ PortUnparseable
    /\ IsCall("authenticate_user")
    /\ pc = "done"
    /\ call.exc = PortError

\* C31 (as claimed): save_token completes without raising and the record is
\* persisted, also when the platform rejects the permission change.
C31_SaveTokenBestEffortChmod ==
    IsCall("save_token") =>
        /\ call.exc = NoExc
        /\ slots[call.file] = Json(call.rec)

\* the finished call sent a refresh request and the token endpoint rejected it
RefreshRejected(c) ==
    /\ c # Idle
    /\ c.op \in {"refresh_token", "_make_request"}
    /\ c.tok # <<>>
    /\ c.tok[Len(c.tok)].req.grant = "refresh_token"
    /\ c.tok[Len(c.tok)].resp.status >= 400

\* C32: a refresh_token call, or a _make_request call that refreshes, whose
\* refresh request the token endpoint rejects ends by raising (refresh_token
\* raises the HTTP error of that response) and leaves every slot and the
\* session's current token as they were before the call.
C32_RejectedRefreshChangesNothing ==
    [][ RefreshRejected(call') =>
            /\ slots' = slots
            /\ token_info' = token_info
            /\ call'.exc # NoExc
            /\ call'.op = "refresh_token" =>
                   /\ call'.exc.exc = "HTTPError"
                   /\ call'.exc.status = call'.tok[Len(call'.tok)].resp.status ]_vars

C32_Witness ==
    /\ RefreshRejected(call)
    /\ call.op = "_make_request"
    /\ call.exc.exc = "HTTPError"
    /\ token_info # None
    /\ slots[call.file] # Absent

C32_WitnessRefreshToken ==
    /\ RefreshRejected(call)
    /\ call.op = "refresh_token"
    /\ token_info # None
    /\ \E f \in Files : slots[f] # Absent

\* the finished test_token call refreshed, and the refresh succeeded
RefreshedSuccessfully(c) == c.flag /\ c.tok # <<>>

\* C33 (as claimed): a test_token call that returns without a successful
\* refresh leaves the session's current token as it was before the call.
C33_TestTokenRestoresCurrentToken ==
    [][ (call' # Idle /\ call'.op = "test_token" /\ ~RefreshedSuccessfully(call'))
            => token_info' = token_info ]_vars

\* C34 (as claimed): when get_token_with_client_credentials returns, the
\* returned record, the session's current token and the record in the
\* scope's slot are the same record.
C34_ReturnedCurrentAndPersistedAgree ==
    (IsCall("get_token_with_client_credentials") /\ call.exc = NoExc) =>
        /\ call.ret = token_info
        /\ slots[call.file] = Json(call.ret)

\* C35 (as claimed): refresh_token_if_needed returns None when the slot it
\* reads holds no record, and a record it returns is the record that slot
\* holds when the call returns.
C35_ReturnsThePersistedRecord ==
    IsCall("refresh_token_if_needed") =>
        /\ call.before = Absent => call.ret = None
        /\ call.ret # None => slots[call.file] = Json(call.ret)

\* C36 (as claimed): every call of authenticate_user terminates, by returning
\* a session or by raising.
C36_AuthenticateUserTerminates == (pc # "idle") ~> (pc = "done")

====
